---- MODULE Spec2Model ----
(***************************************************************************)
(* The YouTube channel pipeline of src/src: main() runs extract_full (the  *)
(* paginated extraction into the bronze zone) and then transformation_full *)
(* (the consolidation of bronze and reclaimed silver files into the silver *)
(* zone).                                                                  *)
(*                                                                         *)
(* Environment: the YouTube API (every call may fail, a listing returns    *)
(* any page of the channel's catalogue with or without a cursor), the wall *)
(* clock (one reading per run, the date may roll over between runs) and    *)
(* os.listdir (any order).  Files of the two zones are read, written and   *)
(* deleted without I/O errors; the directories may fail to be created.     *)
(***************************************************************************)
EXTENDS Integers, Sequences, FiniteSets, TLC

\* number of invocations of main() that are explored
MaxRuns == 2
\* number of videos in the channel's catalogue on the API side
NumVideos == 2
\* extract.py:225
max_results_per_page == 50
\* extract.py:240, the last value of range(1, 50)
LastPage == 49
\* extract.py:175, 238: the absent cursor
None == -1

VARIABLES
    pc,               \* position of main() and of extract_full
    runs,             \* invocations of main() so far (the seconds of the clock)
    today,            \* index in Dates of the current date
    bronze,           \* files of data/bronze/
    silver,           \* files of data/silver/
    df_channel,       \* extract_full: the channel table
    page_number,      \* extract_full: loop variable
    next_page_token,  \* extract_full: cursor returned by the last page
    df_videos,        \* extract_full: accumulated video table
    xlog,             \* what happened in the extraction stage of this run
    tlog              \* what happened in the transformation stage of this run

vars == <<pc, runs, today, bronze, silver, df_channel, page_number,
          next_page_token, df_videos, xlog, tlog>>

----------------------------------------------------------------------------
(* Dates, timestamps, file names, rows *)

\* the dates a run can take place on: the pinned processing day and a later one
Dates == <<"2023-10-27", "2023-10-28">>

\* transformation.py:75, the literal of re.search
ProcessingDate == "2023-10-27"

\* a datetime string is the sequence of its parts
WireDatetime == <<"2015-03-01", "T", "12:00:00", "Z">>

\* the API also serves timestamps with fractional seconds
FractionalDatetime == <<"2015-03-01", "T", "12:00:00", ".000", "Z">>

NoStamp == [date |-> "", time |-> 0]

\* datetime.now() of the current run
Now == [date |-> Dates[today], time |-> runs]

\* a file name "<prefix parts joined by _>_<timestamp>.<ext>"
FileName(prefix, stamp, sep, ext) ==
    [prefix |-> prefix, date |-> stamp.date, time |-> stamp.time,
     sep |-> sep, ext |-> ext]

\* the row of channel_info / video_info as the CSV holds it
RawRow(id, publishedAt) ==
    [id |-> id, publishedAt |-> publishedAt, q_source |-> "", q_datetime |-> NoStamp]

ChannelId == 0

\* snippet.publishedAt of video i: the last video of the catalogue has
\* fractional seconds
VideoPublishedAt(i) ==
    IF i = NumVideos THEN FractionalDatetime ELSE WireDatetime

\* the items search().list returns for the videos start+1 .. start+n, with
\* their statistics merged
CatalogItems(start, n) ==
    [i \in 1..n |-> RawRow(start + i, VideoPublishedAt(start + i))]

----------------------------------------------------------------------------
(* load.py *)

\* os.path.join + to_csv: the file of that name is created or overwritten
save_to_csv(zone, data, file_name) ==
    {f \in zone : f.name # file_name} \cup {[name |-> file_name, rows |-> data]}

----------------------------------------------------------------------------
(* extract.py *)

\* responses of channels().list: no match, or one channel
ChannelResponses ==
    {<<>>, <<RawRow(ChannelId, WireDatetime)>>, <<RawRow(ChannelId, FractionalDatetime)>>}

\* extract_all_channel_info_by_usename with channel_info preset to an empty
\* record: a lookup without a match goes on with an empty table
extract_all_channel_info_preset(items, searchOk) ==
    IF ~searchOk
    THEN [raised |-> TRUE, df |-> <<>>, listed |-> TRUE]
    ELSE [raised |-> FALSE,
          df |-> IF Len(items) > 0 THEN <<items[1]>> ELSE <<>>,
          listed |-> TRUE]

\* lines 82-127.  items: the response of channels().list; searchOk: whether
\* the search().list call for the page count answers with pageInfo.
\* The except of line 108 leaves channel_info unassigned, and line 116 then
\* raises UnboundLocalError before the listing call is made.
extract_all_channel_info_by_usename(items, searchOk) ==
    LET channel_info == IF Len(items) > 0
                        THEN [bound |-> TRUE, value |-> <<items[1]>>]
                        ELSE [bound |-> FALSE, value |-> <<>>]
    IN  IF ~channel_info.bound
        THEN [raised |-> TRUE, df |-> <<>>, listed |-> FALSE]
        ELSE IF ~searchOk
        THEN [raised |-> TRUE, df |-> <<>>, listed |-> TRUE]
        ELSE [raised |-> FALSE, df |-> channel_info.value, listed |-> TRUE]

\* a response of one page: the listing call answers or fails, returns n items
\* after the position the token names, with a cursor or without one, and the
\* statistics calls of the page's videos all answer or one of them fails
PageResponses(pageToken) ==
    LET start == IF pageToken = None THEN 0 ELSE pageToken
    IN  {[listOk |-> FALSE, start |-> start, n |-> 0, cursor |-> FALSE, statsOk |-> TRUE]}
        \cup
        UNION {
          {[listOk |-> TRUE, start |-> start, n |-> n, cursor |-> c, statsOk |-> s] :
              c \in BOOLEAN, s \in {TRUE} \cup (IF n > 0 THEN {FALSE} ELSE {})} :
          n \in 0..(IF NumVideos - start < max_results_per_page
                    THEN NumVideos - start ELSE max_results_per_page)}

\* lines 172-216.  A failing listing call leaves next_page_token unassigned
\* and the return of line 216 raises UnboundLocalError; a failing statistics
\* call resets video_list and keeps the cursor.
extract_all_videos_info(resp) ==
    IF ~resp.listOk
    THEN [raised |-> TRUE, df |-> <<>>, next_page_token |-> None]
    ELSE [raised |-> FALSE,
          df |-> IF resp.statsOk THEN CatalogItems(resp.start, resp.n) ELSE <<>>,
          next_page_token |-> IF resp.cursor THEN resp.start + resp.n ELSE None]

\* line 248
page_token_argument(n, token) == IF n = 1 THEN None ELSE token

\* lines 251: pd.concat([df_videos, df])
concat_videos(acc, df) == acc \o df

\* the loop without the break of lines 253-254
loop_continues_without_break(n, token) == n < LastPage

\* lines 240, 253-254: whether the loop goes on after this page
loop_continues(n, token) == token # None /\ n < LastPage

\* lines 234, 255: f"channel_einerd_{_datetime}.csv", f"videos_einerd_{_datetime}.csv"
bronze_file_name(kind, stamp) == FileName(<<kind, "einerd">>, stamp, "-", "csv")

----------------------------------------------------------------------------
(* transformation.py *)

\* all orders in which os.listdir can give the files of S
RECURSIVE Orders(_)
Orders(S) ==
    IF S = {} THEN {<<>>}
    ELSE UNION {{<<f>> \o o : o \in Orders(S \ {f})} : f \in S}

\* lines 26-38: strptime(s, "%Y-%m-%dT%H:%M:%SZ").strftime("%Y-%m-%d %H:%M:%S");
\* strptime raises ValueError on a string of another shape
convert_datetime(datetime_string) ==
    IF /\ Len(datetime_string) = 4
       /\ datetime_string[2] = "T"
       /\ datetime_string[4] = "Z"
    THEN [raised |-> FALSE,
          value  |-> <<datetime_string[1], " ", datetime_string[3]>>]
    ELSE [raised |-> TRUE, value |-> <<>>]

\* lines 19-23
add_quality_columns(df, stamp) ==
    [i \in 1..Len(df) |-> [df[i] EXCEPT !.q_source = "YouTube", !.q_datetime = stamp]]

\* dict[key] = value of a dict kept as the sequence of its items
dict_set(dict, key, value) ==
    IF \E i \in 1..Len(dict) : dict[i].name = key
    THEN [i \in 1..Len(dict) |->
            IF dict[i].name = key THEN [name |-> key, rows |-> value] ELSE dict[i]]
    ELSE Append(dict, [name |-> key, rows |-> value])

\* line 44: the files of the silver zone that end with ".parquet"
parquet_files(silver_zone) == {f \in silver_zone : f.name.ext = "parquet"}

\* get_processed_files without the os.remove of line 53
get_processed_files_without_remove(silver_zone, csv_files) ==
    [dict |-> csv_files, zone |-> silver_zone]

\* lines 41-61.  csv_files: the listing of line 44 in the order os.listdir
\* gave it.  Every file is read into the dict and removed from the zone.
get_processed_files(silver_zone, csv_files) ==
    [dict |-> csv_files,
     zone |-> {f \in silver_zone : \A i \in 1..Len(csv_files) : csv_files[i] # f}]

\* line 75: the files of the bronze zone whose name matches "2023-10-27"
eligible_files(bronze_zone) == {f \in bronze_zone : f.name.date = ProcessingDate}

\* lines 79-98, the body of the try for one file: read_csv raises
\* EmptyDataError on a file without columns (the CSV of an empty DataFrame),
\* apply(convert_datetime) raises on the first row of another shape
process_file(file, stamp) ==
    LET df == file.rows
        converted == [i \in 1..Len(df) |-> convert_datetime(df[i].publishedAt)]
    IN  IF df = <<>> \/ \E i \in 1..Len(df) : converted[i].raised
        THEN [raised |-> TRUE, df |-> <<>>]
        ELSE [raised |-> FALSE,
              df |-> add_quality_columns(
                        [i \in 1..Len(df) |->
                            [df[i] EXCEPT !.publishedAt = converted[i].value]],
                        stamp)]

\* process_files with the try around the loop instead of inside it: the first
\* file that raises ends the loop
RECURSIVE process_files_try_outside(_, _, _)
process_files_try_outside(csv_files, stamp, dict_process_df) ==
    IF csv_files = <<>> THEN dict_process_df
    ELSE LET r == process_file(Head(csv_files), stamp)
         IN  IF r.raised THEN dict_process_df
             ELSE process_files_try_outside(
                     Tail(csv_files), stamp,
                     dict_set(dict_process_df, Head(csv_files).name, r.df))

\* lines 77-100: the loop over csv_files; a file that raises is skipped
RECURSIVE process_files(_, _, _)
process_files(csv_files, stamp, dict_process_df) ==
    IF csv_files = <<>> THEN dict_process_df
    ELSE LET r == process_file(Head(csv_files), stamp)
         IN  process_files(Tail(csv_files), stamp,
                           IF r.raised THEN dict_process_df
                           ELSE dict_set(dict_process_df, Head(csv_files).name, r.df))

\* lines 115, 121: key.startswith("videos_")
is_videos(name) == name.prefix # <<>> /\ name.prefix[1] = "videos"

\* lines 113-123: the items of a dict routed into the bucket of a kind
RECURSIVE route(_, _, _)
route(items, videos, bucket) ==
    IF items = <<>> THEN bucket
    ELSE route(Tail(items), videos,
               IF is_videos(Head(items).name) = videos
               THEN dict_set(bucket, Head(items).name, Head(items).rows)
               ELSE bucket)

\* lines 126-129: pd.concat(values, ignore_index=True); raises ValueError on
\* no tables
RECURSIVE concat_rows(_)
concat_rows(tables) ==
    IF tables = <<>> THEN <<>> ELSE Head(tables).rows \o concat_rows(Tail(tables))

pd_concat(tables) ==
    IF tables = <<>> THEN [raised |-> TRUE, df |-> <<>>]
    ELSE [raised |-> FALSE, df |-> concat_rows(tables)]

\* lines 112-133: the first try.  The channel tables are concatenated
\* first; when that raises, neither variable is assigned.
consolidate(all_dfs) ==
    LET c == pd_concat(all_dfs.channel)
        v == pd_concat(all_dfs.videos)
    IN  IF c.raised
        THEN [channel |-> [bound |-> FALSE, df |-> <<>>],
              videos  |-> [bound |-> FALSE, df |-> <<>>]]
        ELSE [channel |-> [bound |-> TRUE, df |-> c.df],
              videos  |-> [bound |-> ~v.raised, df |-> v.df]]

\* lines 144-146, 152-154: to_parquet creates or overwrites the file
to_parquet(zone, data, save_file_path) ==
    {f \in zone : f.name # save_file_path}
        \cup {[name |-> save_file_path, rows |-> data]}

\* lines 140-142, 148-150: the name of the output of a bucket, from its first key
silver_file_name(filename, stamp) == FileName(filename.prefix, stamp, " ", "parquet")

\* lines 140-146 and 148-154: one iteration of the loop of the second try;
\* next(iter({})) raises StopIteration, an unassigned table UnboundLocalError
persist(zone, inner_dict, consolidated, stamp) ==
    IF inner_dict = <<>> \/ ~consolidated.bound
    THEN [raised |-> TRUE, zone |-> zone]
    ELSE [raised |-> FALSE,
          zone |-> to_parquet(zone, consolidated.df,
                              silver_file_name(inner_dict[1].name, stamp))]

\* lines 137-158: the second try: the channel iteration, then the videos one;
\* the first exception ends the loop
persist_all(zone, all_dfs, consolidated, stamp) ==
    LET c == persist(zone, all_dfs.channel, consolidated.channel, stamp)
    IN  IF c.raised THEN c.zone
        ELSE persist(c.zone, all_dfs.videos, consolidated.videos, stamp).zone

\* consolidated_all_files with the two loops of lines 113-123 exchanged: the
\* freshly parsed tables enter the buckets before the reclaimed ones
consolidated_all_files_parsed_first(silver_zone, silver_listing, bronze_listing, stamp) ==
    LET restored == get_processed_files(silver_zone, silver_listing)
        dict_process_df == process_files(bronze_listing, stamp, <<>>)
        items == dict_process_df \o restored.dict
        all_dfs == [channel |-> route(items, FALSE, <<>>),
                    videos  |-> route(items, TRUE, <<>>)]
        consolidated == consolidate(all_dfs)
    IN  [silver    |-> persist_all(restored.zone, all_dfs, consolidated, stamp),
         restored  |-> {restored.dict[i].name : i \in 1..Len(restored.dict)},
         processed |-> {dict_process_df[i].name : i \in 1..Len(dict_process_df)},
         all_dfs   |-> all_dfs]

\* lines 103-158.  silver_listing, bronze_listing: the listings of lines 44
\* and 75 in the order os.listdir gave them.
consolidated_all_files(silver_zone, silver_listing, bronze_listing, stamp) ==
    LET restored == get_processed_files(silver_zone, silver_listing)
        dict_process_df == process_files(bronze_listing, stamp, <<>>)
        items == restored.dict \o dict_process_df
        all_dfs == [channel |-> route(items, FALSE, <<>>),
                    videos  |-> route(items, TRUE, <<>>)]
        consolidated == consolidate(all_dfs)
    IN  [silver    |-> persist_all(restored.zone, all_dfs, consolidated, stamp),
         restored  |-> {restored.dict[i].name : i \in 1..Len(restored.dict)},
         processed |-> {dict_process_df[i].name : i \in 1..Len(dict_process_df)},
         all_dfs   |-> all_dfs]

----------------------------------------------------------------------------
(* main.py *)

\* main without the try of line 40: the exception of extract_full leaves main
main_after_extract_propagates(outcome) ==
    IF outcome = "raised" THEN "raised" ELSE "transformation_full"

\* lines 40-47: the try/except around extract_full; where main goes on
main_after_extract(outcome) == "transformation_full"

\* lines 49-56: the try/except around transformation_full
main_after_transform(outcome) == "finished"

\* transformation.py lines 176-179: run as a script, nothing catches
script_after_transform(outcome) == IF outcome = "raised" THEN "raised" ELSE "finished"

\* the log of the extraction stage of a run, for the properties below
XlogInit ==
    [outcome      |-> "none",   \* "running", "returned", "raised"
     lookup       |-> "none",   \* "miss", "hit"
     listed       |-> FALSE,    \* a search().list call was made
     pages        |-> 0,        \* pages whose listing call answered
     sumItems     |-> 0,        \* items those pages listed
     sumKept      |-> 0,        \* items of the pages whose statistics calls answered
     absentAt     |-> 0,        \* first page that came without a cursor
     listFailed   |-> FALSE,    \* a page's listing call failed
     statsFailed  |-> FALSE,    \* a statistics call failed
     bronze0      |-> {}]       \* the bronze zone when the run began

\* extract_full ends, by return or by exception: its locals are gone and the
\* counters of the pagination loop with them
ended(x, outcome) ==
    [x EXCEPT !.outcome = outcome, !.pages = 0, !.sumItems = 0, !.sumKept = 0,
              !.absentAt = 0]

\* the log of the transformation stage of a run, for the properties below
TlogInit ==
    [entry     |-> "none",      \* the entry point of this run: "main", "script"
     attempts  |-> 0,           \* calls of transformation_full
     outcome   |-> "none",      \* "returned", "raised"
     after     |-> "none",      \* outcome of the extraction stage when it was called
     silver0   |-> {},          \* the silver zone when it was called
     restored  |-> {},          \* the keys of dict_restored_df
     processed |-> {},          \* the keys of dict_process_df
     channels  |-> 0,           \* tables in the channel bucket
     videos    |-> 0]           \* tables in the videos bucket

Init ==
    /\ pc = "idle"
    /\ runs = 0
    /\ today = 1
    /\ bronze = {}
    /\ silver = {}
    /\ df_channel = <<>>
    /\ page_number = 0
    /\ next_page_token = None
    /\ df_videos = <<>>
    /\ xlog = XlogInit
    /\ tlog = TlogInit

\* main.py lines 12-38: one invocation of main() begins
main ==
    /\ pc \in {"idle", "finished", "raised"}
    /\ runs < MaxRuns
    /\ runs' = runs + 1
    /\ today' \in today..Len(Dates)
    /\ pc' = "extract_full"
    /\ df_channel' = <<>>
    /\ page_number' = 0
    /\ next_page_token' = None
    /\ df_videos' = <<>>
    /\ xlog' = [XlogInit EXCEPT !.outcome = "running", !.bronze0 = bronze]
    /\ tlog' = [TlogInit EXCEPT !.entry = "main"]
    /\ UNCHANGED <<bronze, silver>>

\* transformation.py lines 176-179: the transformation run as a script
transformation_script ==
    /\ pc \in {"idle", "finished", "raised"}
    /\ runs < MaxRuns
    /\ runs' = runs + 1
    /\ today' \in today..Len(Dates)
    /\ pc' = "transformation_full"
    /\ xlog' = [XlogInit EXCEPT !.bronze0 = bronze]
    /\ tlog' = [TlogInit EXCEPT !.entry = "script"]
    /\ UNCHANGED <<bronze, silver, df_channel, page_number, next_page_token,
                   df_videos>>

\* extract.py lines 222-226: ensure_dir and authenticated_service (the build
\* of the API client) answer or raise
extract_full_begin ==
    /\ pc = "extract_full"
    /\ \E ok \in BOOLEAN :
          IF ok
          THEN /\ pc' = "channel"
               /\ xlog' = xlog
          ELSE /\ pc' = main_after_extract("raised")
               /\ xlog' = ended(xlog, "raised")
    /\ UNCHANGED <<runs, today, bronze, silver, df_channel, page_number,
                   next_page_token, df_videos, tlog>>

\* extract.py lines 228-233
channel_info ==
    /\ pc = "channel"
    /\ \E items \in ChannelResponses, searchOk \in BOOLEAN :
          LET r == extract_all_channel_info_by_usename(items, searchOk)
              x == [xlog EXCEPT !.lookup = IF Len(items) > 0 THEN "hit" ELSE "miss",
                                !.listed = r.listed]
          IN  IF r.raised
              THEN /\ pc' = main_after_extract("raised")
                   /\ xlog' = ended(x, "raised")
                   /\ df_channel' = df_channel
              ELSE /\ pc' = "save_channel"
                   /\ xlog' = x
                   /\ df_channel' = r.df
    /\ UNCHANGED <<runs, today, bronze, silver, page_number, next_page_token,
                   df_videos, tlog>>

\* extract.py lines 234-239
save_channel ==
    /\ pc = "save_channel"
    /\ bronze' = save_to_csv(bronze, df_channel, bronze_file_name("channel", Now))
    /\ next_page_token' = None
    /\ df_videos' = <<>>
    /\ page_number' = 1
    /\ pc' = "pages"
    /\ UNCHANGED <<runs, today, silver, df_channel, xlog, tlog>>

\* extract.py lines 240-254: one iteration of the pagination loop
videos_page ==
    /\ pc = "pages"
    /\ \E resp \in PageResponses(page_token_argument(page_number, next_page_token)) :
          LET r == extract_all_videos_info(resp)
              x == [xlog EXCEPT
                      !.listed = TRUE,
                      !.pages = IF resp.listOk THEN @ + 1 ELSE @,
                      !.sumItems = @ + resp.n,
                      !.sumKept = IF resp.statsOk THEN @ + resp.n ELSE @,
                      !.absentAt = IF @ = 0 /\ resp.listOk /\ ~resp.cursor
                                   THEN page_number ELSE @,
                      !.listFailed = @ \/ ~resp.listOk,
                      !.statsFailed = @ \/ ~resp.statsOk]
          IN  IF r.raised
              THEN /\ pc' = main_after_extract("raised")
                   /\ xlog' = ended(x, "raised")
                   /\ df_videos' = <<>>
                   /\ next_page_token' = None
                   /\ page_number' = 0
                   /\ df_channel' = <<>>
              ELSE /\ df_videos' = concat_videos(df_videos, r.df)
                   /\ next_page_token' = r.next_page_token
                   /\ xlog' = x
                   /\ IF loop_continues(page_number, r.next_page_token)
                      THEN /\ page_number' = page_number + 1
                           /\ pc' = "pages"
                      ELSE /\ page_number' = page_number
                           /\ pc' = "save_videos"
                   /\ df_channel' = df_channel
    /\ UNCHANGED <<runs, today, bronze, silver, tlog>>

\* extract.py lines 255-256, and the return to main
save_videos ==
    /\ pc = "save_videos"
    /\ bronze' = save_to_csv(bronze, df_videos, bronze_file_name("videos", Now))
    /\ pc' = main_after_extract("returned")
    /\ xlog' = ended(xlog, "returned")
    /\ df_channel' = <<>>
    /\ page_number' = 0
    /\ next_page_token' = None
    /\ df_videos' = <<>>
    /\ UNCHANGED <<runs, today, silver, tlog>>

\* lines 12-16: os.makedirs is called, and can raise, only for a directory
\* that does not exist; a zone that holds files exists
ensure_dir_outcomes(zones) ==
    IF \E i \in 1..Len(zones) : zones[i] = {} THEN BOOLEAN ELSE {TRUE}

\* main.py lines 47-56 and transformation.py lines 161-173: ensure_dir raises
\* or the consolidation runs, with the two listings in any order
transformation_full ==
    /\ pc = "transformation_full"
    /\ \E dirsOk \in ensure_dir_outcomes(<<bronze, silver>>),
          silver_listing \in Orders(parquet_files(silver)),
          bronze_listing \in Orders(eligible_files(bronze)) :
          LET r == consolidated_all_files(silver, silver_listing, bronze_listing, Now)
              t == [tlog EXCEPT !.attempts = @ + 1,
                                !.after = xlog.outcome,
                                !.silver0 = silver]
          IN  IF dirsOk
              THEN /\ silver' = r.silver
                   /\ tlog' = [t EXCEPT !.outcome = "returned",
                                        !.restored = r.restored,
                                        !.processed = r.processed,
                                        !.channels = Len(r.all_dfs.channel),
                                        !.videos = Len(r.all_dfs.videos)]
                   /\ pc' = IF tlog.entry = "main"
                            THEN main_after_transform("returned")
                            ELSE script_after_transform("returned")
              ELSE /\ silver' = silver
                   /\ tlog' = [t EXCEPT !.outcome = "raised"]
                   /\ pc' = IF tlog.entry = "main"
                            THEN main_after_transform("raised")
                            ELSE script_after_transform("raised")
    /\ UNCHANGED <<runs, today, bronze, df_channel, page_number, next_page_token,
                   df_videos, xlog>>

Next ==
    \/ main
    \/ transformation_script
    \/ extract_full_begin
    \/ channel_info
    \/ save_channel
    \/ videos_page
    \/ save_videos
    \/ transformation_full

\* every run is a run of main() or of the transformation script
Spec == Init /\ [][Next]_vars

\* main() as the first run
first_main == runs = 0 /\ main

NextOnce ==
    \/ first_main
    \/ transformation_script
    \/ extract_full_begin
    \/ channel_info
    \/ save_channel
    \/ videos_page
    \/ save_videos
    \/ transformation_full

\* one run of main(), then runs of the transformation script
SpecOnce == Init /\ [][NextOnce]_vars

----------------------------------------------------------------------------
(* Properties of the coordinator and of the extraction *)

\* the two files extract_full names after the timestamp of this run
RunFile(kind) == bronze_file_name(kind, Now)

Written(kind) == \E f \in bronze : f.name = RunFile(kind)

ExtractionEnded == xlog.outcome \in {"returned", "raised"}

\* C1: in every run of main(), whether extract_full returned or raised, the
\* transformation is attempted once, only after the extraction has ended, it
\* can always be attempted then, and main reaches its last line without
\* raising, whether transformation_full returned or raised.
C1_TransformationAlwaysAttempted ==
    tlog.entry = "main" =>
        /\ pc # "raised"
        /\ ExtractionEnded => pc \in {"transformation_full", "finished"}
        /\ ~ExtractionEnded => tlog.attempts = 0
        /\ pc = "transformation_full" =>
              tlog.attempts = 0 /\ ENABLED transformation_full
        /\ pc = "finished" =>
              /\ tlog.attempts = 1
              /\ tlog.after = xlog.outcome
              /\ ExtractionEnded
              /\ tlog.outcome \in {"returned", "raised"}

\* a run of main() that finished although both stages raised
C1_Witness ==
    /\ tlog.entry = "main"
    /\ pc = "finished"
    /\ xlog.outcome = "raised"
    /\ tlog.outcome = "raised"

\* C2: a run of extract_full whose channel lookup succeeded ends with the
\* channel extract and the videos extract of this run both in the bronze
\* zone; no run ends with the channel extract but without the videos extract.
C2_BothExtractsWritten ==
    (ExtractionEnded /\ xlog.lookup = "hit") =>
        /\ Written("channel") /\ Written("videos")
        /\ Cardinality({f \in bronze : f.name.time = runs}) = 2

\* C3: when an API call of the pagination failed (a listing call or a
\* statistics call), extract_full does not raise and the videos extract is
\* written.
C3_PaginationFailureRecovered ==
    (ExtractionEnded /\ (xlog.listFailed \/ xlog.statsFailed)) =>
        xlog.outcome = "returned" /\ Written("videos")

\* C4: after a channel lookup without a match the extraction has raised, the
\* bronze zone is as it was when the run began, no listing call was made,
\* and main goes on to the transformation, which is attempted.
C4_LookupMissWritesNothing ==
    xlog.lookup = "miss" =>
        /\ xlog.outcome = "raised"
        /\ bronze = xlog.bronze0
        /\ ~xlog.listed
        /\ pc \in {"transformation_full", "finished"}
        /\ pc = "finished" => tlog.attempts = 1

\* a finished run whose lookup had no match and whose transformation ran
C4_Witness ==
    /\ xlog.lookup = "miss"
    /\ pc = "finished"
    /\ tlog.attempts = 1
    /\ tlog.outcome = "returned"

\* the loop stopped after the first page without a cursor, or after LastPage
StoppedWhereItShould ==
    /\ xlog.pages = page_number
    /\ page_number <= LastPage
    /\ IF xlog.absentAt # 0 THEN page_number = xlog.absentAt
                            ELSE page_number = LastPage

\* the videos are in the order the API lists the catalogue in
InApiOrder(df) == \A i, j \in 1..Len(df) : i < j => df[i].id < df[j].id

\* C5 as stated: when the pagination loop has ended, it stopped after the
\* first page without a cursor or after 49 pages, and the accumulated table
\* has as many rows as the fetched pages listed items, in the API's order,
\* and at most 49 times the page size.
C5_SizeIsSumOfPageItems ==
    pc = "save_videos" =>
        /\ StoppedWhereItShould
        /\ Len(df_videos) = xlog.sumItems
        /\ InApiOrder(df_videos)
        /\ Len(df_videos) <= LastPage * max_results_per_page

\* C5 amended: the accumulated table has as many rows as the items of the
\* fetched pages whose statistics calls all answered (a page with a failed
\* statistics call contributes no row); while the loop runs no page came
\* without a cursor.
C5_SizeIsSumOfKeptPages ==
    /\ pc = "save_videos" =>
          /\ StoppedWhereItShould
          /\ Len(df_videos) = xlog.sumKept
          /\ xlog.sumKept <= xlog.sumItems
          /\ InApiOrder(df_videos)
          /\ Len(df_videos) <= page_number * max_results_per_page
          /\ Len(df_videos) <= LastPage * max_results_per_page
    /\ pc = "pages" =>
          /\ xlog.absentAt = 0
          /\ page_number <= LastPage
          /\ xlog.pages = page_number - 1
          /\ Len(df_videos) = xlog.sumKept

\* the loop ended at the cap, with the rows of one page dropped and the rows
\* of another kept
C5_Witness ==
    /\ pc = "save_videos"
    /\ page_number = LastPage
    /\ xlog.absentAt = 0
    /\ xlog.statsFailed
    /\ Len(df_videos) > 0
    /\ Len(df_videos) < xlog.sumItems

----------------------------------------------------------------------------
(* Properties of the transformation *)

Kinds == {"channel", "videos"}

\* the kind a file name begins with
KindOf(name) == IF name.prefix[1] = "videos" THEN "videos" ELSE "channel"

RECURSIVE SumRows(_)
SumRows(files) ==
    IF files = {} THEN 0
    ELSE LET f == CHOOSE x \in files : TRUE
         IN  Len(f.rows) + SumRows(files \ {f})

CountId(rows, id) == Cardinality({i \in 1..Len(rows) : rows[i].id = id})

RECURSIVE SumCountId(_, _)
SumCountId(files, id) ==
    IF files = {} THEN 0
    ELSE LET f == CHOOSE x \in files : TRUE
         IN  CountId(f.rows, id) + SumCountId(files \ {f}, id)

Ids == 0..NumVideos

\* the shapes "YYYY-MM-DDTHH:MM:SSZ" and "YYYY-MM-DD HH:MM:SS"
WireFormat(s) == Len(s) = 4 /\ s[2] = "T" /\ s[4] = "Z"

StorageFormat(s) == Len(s) = 3 /\ s[2] = " "

\* a bronze file that has rows, all with a publishedAt in the wire format
WellFormed(f) ==
    f.rows # <<>> /\ \A i \in 1..Len(f.rows) : WireFormat(f.rows[i].publishedAt)

\* the bronze files of the processing day, of a kind
Eligible(kind) ==
    {f \in bronze : f.name.date = ProcessingDate /\ KindOf(f.name) = kind}

\* the silver files that were there when the transformation began, of a kind
Reclaimed(kind) ==
    {f \in tlog.silver0 : f.name.ext = "parquet" /\ KindOf(f.name) = kind}

\* the silver files this run has written, of a kind
Output(kind) ==
    {g \in silver : /\ g.name.ext = "parquet"
                    /\ g.name.date = Now.date /\ g.name.time = Now.time
                    /\ KindOf(g.name) = kind}

Transformed == tlog.outcome = "returned"

\* f's rows stand together, in their order, in g
Contains(g, f) ==
    \E k \in 0..(Len(g.rows) - Len(f.rows)) :
        SubSeq(g.rows, k + 1, k + Len(f.rows)) = f.rows

C7_NoDuplicateRows ==
    Transformed =>
        \A g \in parquet_files(silver) : \A id \in Ids :
            CountId(g.rows, id) <= SumCountId(Eligible(KindOf(g.name)), id)

\* C8: when one bucket has no table and the other has some, the output of
\* the other kind is written, whichever of the two is the empty one.
C8_OtherKindStillWritten ==
    Transformed =>
        /\ (tlog.channels = 0 /\ tlog.videos > 0) =>
              Output("videos") # {} /\ Output("channel") = {}
        /\ (tlog.videos = 0 /\ tlog.channels > 0) =>
              Output("channel") # {} /\ Output("videos") = {}

\* the rows of a table that this run has parsed
FreshRows(rows) == {i \in 1..Len(rows) : rows[i].q_datetime = Now}

\* C9: process_files parses exactly the eligible bronze files that are well
\* formed, in whatever order they are listed; a file with a publishedAt of
\* another shape, or without rows, is skipped as a whole: the tables written
\* hold no row of it.
C9_BadFileSkippedAlone ==
    Transformed =>
        /\ tlog.processed =
              {f.name : f \in {x \in Eligible("channel") \cup Eligible("videos") :
                                 WellFormed(x)}}
        /\ \A kind \in Kinds : \A g \in Output(kind) :
              /\ Cardinality(FreshRows(g.rows)) =
                    SumRows({f \in Eligible(kind) : WellFormed(f)})
              /\ \A i \in 1..Len(g.rows) :
                    /\ StorageFormat(g.rows[i].publishedAt)
                    /\ g.rows[i].q_source = "YouTube"

\* a batch with a parsed file and a skipped file that has a row in the wire
\* format and a row in another format
C9_Witness ==
    /\ Transformed
    /\ tlog.processed # {}
    /\ Output("channel") # {}
    /\ \E f \in Eligible("videos") :
          /\ ~WellFormed(f)
          /\ \E i, j \in 1..Len(f.rows) :
                /\ WireFormat(f.rows[i].publishedAt)
                /\ ~WireFormat(f.rows[j].publishedAt)

\* C10: when both buckets have tables, one table per kind is written: the
\* rows of the reclaimed files of its kind first, then the rows of the
\* parsed bronze files of its kind, as many as those files hold, and no row
\* of the other kind.
C10_ConcatenationPerKind ==
    (Transformed /\ tlog.channels > 0 /\ tlog.videos > 0) =>
        \A kind \in Kinds :
            /\ Cardinality(Output(kind)) = 1
            /\ \A g \in Output(kind) :
                  LET m == SumRows(Reclaimed(kind))
                      good == {f \in Eligible(kind) : WellFormed(f)}
                  IN  /\ Len(g.rows) = m + SumRows(good)
                      /\ \A i \in 1..Len(g.rows) :
                            /\ (g.rows[i].id = ChannelId) <=> (kind = "channel")
                            /\ i <= m => g.rows[i].q_datetime.time < runs
                            /\ i > m => g.rows[i].q_datetime = Now
                      /\ \A id \in Ids :
                            /\ CountId(SubSeq(g.rows, 1, m), id) =
                                  SumCountId(Reclaimed(kind), id)
                            /\ CountId(SubSeq(g.rows, m + 1, Len(g.rows)), id) =
                                  SumCountId(good, id)

\* a transformation that merged a reclaimed and a parsed table of each kind
C10_Witness ==
    /\ Transformed
    /\ \A kind \in Kinds :
          /\ Reclaimed(kind) # {}
          /\ \E f \in Eligible(kind) : WellFormed(f)
          /\ Output(kind) # {}

====
